---- MODULE Spec2Model ----
(***************************************************************************)
(* A model of the Catala Python runtime (catala_runtime.py):               *)
(*   - handle_default, the default-resolution engine, stepped one thunk    *)
(*     evaluation at a time, with a log of the thunks evaluated;           *)
(*   - date_of_numbers and the date accessors, over datetime.date;         *)
(*   - duration_of_numbers / duration_to_years_months_days, over           *)
(*     dateutil.relativedelta.relativedelta;                               *)
(*   - the NoValueProvided signal and its SourcePosition payload.          *)
(***************************************************************************)
EXTENDS Integers, Sequences, FiniteSets, TLC

VARIABLES
    exceptions,      \* handle_default: the list of exception thunks (their outcomes)
    just,            \* handle_default: the justification thunk (its outcome)
    cons,            \* handle_default: the consequence thunk (its outcome)
    pc,              \* position in the function being run
    idx,             \* handle_default: 1-based position of the for loop
    acc,             \* handle_default: local acc
    result,          \* what the call returned or raised
    evaluated,       \* log of the thunks evaluated so far, in order
    year, month, day,        \* date_of_numbers: arguments
    fields,                  \* the accessors' results on the returned Date
    years, months, days,     \* duration_of_numbers: arguments
    duration,                \* the Duration built
    source_position,         \* NoValueProvided.__init__: argument
    signal                   \* the NoValueProvided instance built

vars == <<exceptions, just, cons, pc, idx, acc, result, evaluated,
          year, month, day, fields, years, months, days, duration,
          source_position, signal>>

defaultVars == <<exceptions, just, cons, idx, acc, evaluated>>
dateVars == <<year, month, day, fields>>
durationVars == <<years, months, days, duration>>
signalVars == <<source_position, signal>>

----------------------------------------------------------------------------
(* Bounds of the model *)

MaxLen == 3          \* longest list of exceptions
MaxMonth == 14       \* date months range over -1..MaxMonth
MaxDay == 33         \* date days range over -1..MaxDay
MaxDurYears == 2     \* duration years range over -MaxDurYears..MaxDurYears
MaxDurMonths == 25   \* duration months range over -MaxDurMonths..MaxDurMonths
MaxDurDays == 3      \* duration days range over -MaxDurDays..MaxDurDays
MaxLine == 2         \* source lines and columns range over 1..MaxLine

----------------------------------------------------------------------------
(* Python values and thunk outcomes *)

PyNone == [tag |-> "None", v |-> 0]
PyInt(n) == [tag |-> "int", v |-> n]

\* A thunk either returns a value or raises a condition.
Returns(x) == [raises |-> "", value |-> x]
Raises(e) == [raises |-> e, value |-> PyNone]

\* The outcome of a call: pending, a returned value, or a raised condition.
Pending == [kind |-> "pending", value |-> PyNone, exc |-> ""]
Returned(x) == [kind |-> "return", value |-> x, exc |-> ""]
Raised(e) == [kind |-> "raise", value |-> PyNone, exc |-> e]

\* The exception classes of the runtime other than EmptyError.
OtherErrors == {"AssertionFailed", "ConflictError", "UncomparableDurations",
                "IndivisableDurations", "ImpossibleDate", "NoValueProvided"}

\* The deferred computations handed to handle_default.  0 is a falsy value.
ExceptionThunks == {Returns(PyInt(0)), Returns(PyInt(7)), Returns(PyNone),
                    Raises("EmptyError")} \cup {Raises(e) : e \in OtherErrors}
JustThunks == {Returns(TRUE), Returns(FALSE), [raises |-> "AssertionFailed", value |-> FALSE]}
ConsThunks == {Returns(PyInt(42)), Raises("EmptyError")}

ListsUpTo(S, n) == UNION {[1..k -> S] : k \in 0..n}

----------------------------------------------------------------------------
(* handle_default *)

\* Faulty variant of `x is None`: the truth test `not x`, which 0 passes too
IsNoneFalsy(x) == x = PyNone \/ x = PyInt(0)

\* `x is None`
IsNone(x) == x = PyNone

\* Faulty variant of the handler: a bare `except:`
CaughtAny(e) == TRUE

\* `except EmptyError:` -- the conditions the try statement catches
Caught(e) == e = "EmptyError"

\* Faulty variant of the loop body: a later present value silently replaces
\* an earlier one (last match wins)
ForExceptionLastWins ==
    /\ pc = "for"
    /\ idx <= Len(exceptions)
    /\ evaluated' = Append(evaluated, <<"exception", idx>>)
    /\ LET o == exceptions[idx] IN
         IF o.raises # "" /\ ~Caught(o.raises)
         THEN /\ result' = Raised(o.raises)
              /\ pc' = "done"
              /\ UNCHANGED <<acc, idx>>
         ELSE LET new_val == IF o.raises # "" THEN PyNone ELSE o.value IN
              /\ acc' = IF IsNone(new_val) THEN acc ELSE new_val
              /\ idx' = idx + 1
              /\ UNCHANGED <<pc, result>>
    /\ UNCHANGED <<exceptions, just, cons, dateVars, durationVars, signalVars>>

\* Faulty variant of the loop body: the loop stops at the first present value
\* (first match wins)
ForExceptionFirstWins ==
    /\ pc = "for"
    /\ idx <= Len(exceptions)
    /\ evaluated' = Append(evaluated, <<"exception", idx>>)
    /\ LET o == exceptions[idx] IN
         IF o.raises # "" /\ ~Caught(o.raises)
         THEN /\ result' = Raised(o.raises)
              /\ pc' = "done"
              /\ UNCHANGED <<acc, idx>>
         ELSE LET new_val == IF o.raises # "" THEN PyNone ELSE o.value IN
              /\ acc' = new_val
              /\ idx' = IF IsNone(new_val) THEN idx + 1 ELSE Len(exceptions) + 1
              /\ UNCHANGED <<pc, result>>
    /\ UNCHANGED <<exceptions, just, cons, dateVars, durationVars, signalVars>>

\* One iteration of `for exception in exceptions:`
ForException ==
    /\ pc = "for"
    /\ idx <= Len(exceptions)
    /\ evaluated' = Append(evaluated, <<"exception", idx>>)
    /\ LET o == exceptions[idx] IN
         IF o.raises # "" /\ ~Caught(o.raises)
         THEN \* exception() raised something the try does not catch
              /\ result' = Raised(o.raises)
              /\ pc' = "done"
              /\ UNCHANGED <<acc, idx>>
         ELSE LET new_val == IF o.raises # "" THEN PyNone ELSE o.value IN
              IF IsNone(acc)
              THEN /\ acc' = new_val
                   /\ idx' = idx + 1
                   /\ UNCHANGED <<pc, result>>
              ELSE IF ~IsNone(acc) /\ IsNone(new_val)
              THEN /\ idx' = idx + 1
                   /\ UNCHANGED <<acc, pc, result>>
              ELSE IF ~IsNone(acc) /\ ~IsNone(new_val)
              THEN /\ result' = Raised("ConflictError")
                   /\ pc' = "done"
                   /\ UNCHANGED <<acc, idx>>
              ELSE /\ idx' = idx + 1
                   /\ UNCHANGED <<acc, pc, result>>
    /\ UNCHANGED <<exceptions, just, cons, dateVars, durationVars, signalVars>>

\* Faulty variant of the exit of the loop: the base rule is tried even when
\* an exception gave a value
AfterLoopEager ==
    /\ pc = "for"
    /\ idx > Len(exceptions)
    /\ pc' = "just"
    /\ UNCHANGED <<result, defaultVars, dateVars, durationVars, signalVars>>

\* The loop is exhausted: `if acc is None: ... else: return acc`
AfterLoop ==
    /\ pc = "for"
    /\ idx > Len(exceptions)
    /\ IF IsNone(acc)
       THEN /\ pc' = "just"
            /\ UNCHANGED result
       ELSE /\ pc' = "done"
            /\ result' = Returned(acc)
    /\ UNCHANGED <<defaultVars, dateVars, durationVars, signalVars>>

\* Faulty variant of the base rule: the test on just() inverted
EvalJustInverted ==
    /\ pc = "just"
    /\ evaluated' = Append(evaluated, <<"just", 0>>)
    /\ IF just.raises # ""
       THEN /\ result' = Raised(just.raises)
            /\ pc' = "done"
       ELSE IF ~just.value
       THEN /\ pc' = "cons"
            /\ UNCHANGED result
       ELSE /\ result' = Raised("EmptyError")
            /\ pc' = "done"
    /\ UNCHANGED <<exceptions, just, cons, idx, acc, dateVars, durationVars, signalVars>>

\* `if just(): ... else: raise EmptyError`
EvalJust ==
    /\ pc = "just"
    /\ evaluated' = Append(evaluated, <<"just", 0>>)
    /\ IF just.raises # ""
       THEN /\ result' = Raised(just.raises)
            /\ pc' = "done"
       ELSE IF just.value
       THEN /\ pc' = "cons"
            /\ UNCHANGED result
       ELSE /\ result' = Raised("EmptyError")
            /\ pc' = "done"
    /\ UNCHANGED <<exceptions, just, cons, idx, acc, dateVars, durationVars, signalVars>>

\* `return cons()`
EvalCons ==
    /\ pc = "cons"
    /\ evaluated' = Append(evaluated, <<"cons", 0>>)
    /\ result' = IF cons.raises # "" THEN Raised(cons.raises) ELSE Returned(cons.value)
    /\ pc' = "done"
    /\ UNCHANGED <<exceptions, just, cons, idx, acc, dateVars, durationVars, signalVars>>

\* The variables of the functions a specification does not run.
IdleDefault ==
    /\ exceptions = <<>> /\ just = Returns(FALSE) /\ cons = Raises("EmptyError")
    /\ idx = 1 /\ acc = PyNone /\ evaluated = <<>>
IdleDate == year = 1 /\ month = 1 /\ day = 1 /\ fields = <<>>
IdleDuration == years = 0 /\ months = 0 /\ days = 0 /\ duration = PyNone
IdleSignal == source_position = PyNone /\ signal = PyNone

\* handle_default(exceptions, just, cons) has been entered: acc = None
Init ==
    /\ exceptions \in ListsUpTo(ExceptionThunks, MaxLen)
    /\ just \in JustThunks
    /\ cons \in ConsThunks
    /\ pc = "for"
    /\ idx = 1
    /\ acc = PyNone
    /\ result = Pending
    /\ evaluated = <<>>
    /\ IdleDate /\ IdleDuration /\ IdleSignal

Next == ForException \/ AfterLoop \/ EvalJust \/ EvalCons

Spec == Init /\ [][Next]_vars

----------------------------------------------------------------------------
(* Dates: date_of_numbers and the accessors, over datetime.date *)

MINYEAR == 1
MAXYEAR == 9999
DAYS_IN_MONTH == <<31, 28, 31, 30, 31, 30, 31, 31, 30, 31, 30, 31>>

\* Faulty variant of the leap-year rule: every fourth year (the Julian rule)
is_leap_every_fourth(y) == y % 4 = 0

\* datetime: year -> 1 if leap year, else 0
is_leap(y) == y % 4 = 0 /\ (y % 100 # 0 \/ y % 400 = 0)

\* datetime: year, month -> number of days in that month in that year
days_in_month(y, m) == IF m = 2 /\ is_leap(y) THEN 29 ELSE DAYS_IN_MONTH[m]

\* datetime.date(year, month, day) raises ValueError unless the fields check
check_date_fields(y, m, d) ==
    /\ MINYEAR <= y /\ y <= MAXYEAR
    /\ 1 <= m /\ m <= 12
    /\ 1 <= d /\ d <= days_in_month(y, m)

\* try: return Date(datetime.date(...)) except: raise ImpossibleDate()
date_of_numbers(y, m, d) ==
    IF check_date_fields(y, m, d)
    THEN Returned([year |-> y, month |-> m, day |-> d])
    ELSE Raised("ImpossibleDate")

\* mpz(d) of a host integer: the same integer, at arbitrary precision
integer_of_int(d) == d
year_of_date(d) == integer_of_int(d.year)
month_number_of_date(d) == integer_of_int(d.month)
day_of_month_of_date(d) == integer_of_int(d.day)

DateYears == {-1, 0, 1, 4, 100, 1900, 2000, 2023, 2024, 2100, 9999, 10000}

DateOfNumbers ==
    /\ pc = "date_of_numbers"
    /\ result' = date_of_numbers(year, month, day)
    /\ pc' = IF result'.kind = "return" THEN "accessors" ELSE "done"
    /\ UNCHANGED <<dateVars, defaultVars, durationVars, signalVars>>

DateAccessors ==
    /\ pc = "accessors"
    /\ fields' = <<year_of_date(result.value), month_number_of_date(result.value),
                   day_of_month_of_date(result.value)>>
    /\ pc' = "done"
    /\ UNCHANGED <<year, month, day, result, defaultVars, durationVars, signalVars>>

InitDate ==
    /\ year \in DateYears
    /\ month \in -1..MaxMonth
    /\ day \in -1..MaxDay
    /\ fields = <<>>
    /\ pc = "date_of_numbers"
    /\ result = Pending
    /\ IdleDefault /\ IdleDuration /\ IdleSignal

NextDate == DateOfNumbers \/ DateAccessors

SpecDate == InitDate /\ [][NextDate]_vars

----------------------------------------------------------------------------
(* Durations: duration_of_numbers and duration_to_years_months_days, over
   dateutil.relativedelta.relativedelta *)

abs(x) == IF x < 0 THEN -x ELSE x
sign(x) == IF x < 0 THEN -1 ELSE 1

\* Faulty variant of the carry: floor division of the signed month count
relativedelta_fix_floor(rd) ==
    IF abs(rd.months) > 11
    THEN [rd EXCEPT !.months = rd.months % 12,
                    !.years = rd.years + (rd.months \div 12)]
    ELSE rd

\* relativedelta._fix: months beyond 11 in absolute value carry into years,
\* the remainder keeping the sign of the months
relativedelta_fix(rd) ==
    IF abs(rd.months) > 11
    THEN LET s == sign(rd.months)
             div == (rd.months * s) \div 12
             mod == (rd.months * s) % 12
         IN [rd EXCEPT !.months = mod * s, !.years = rd.years + div * s]
    ELSE rd

\* relativedelta(years=, months=, days=): stores the fields, then _fix()
relativedelta(y, m, d) == relativedelta_fix([years |-> y, months |-> m, days |-> d])

duration_of_numbers(y, m, d) == relativedelta(y, m, d)
duration_to_years_months_days(d) == <<d.years, d.months, d.days>>

DurationOfNumbers ==
    /\ pc = "duration_of_numbers"
    /\ duration' = duration_of_numbers(years, months, days)
    /\ pc' = "duration_to_years_months_days"
    /\ UNCHANGED <<years, months, days, result, defaultVars, dateVars, signalVars>>

DurationToYearsMonthsDays ==
    /\ pc = "duration_to_years_months_days"
    /\ result' = Returned(duration_to_years_months_days(duration))
    /\ pc' = "done"
    /\ UNCHANGED <<durationVars, defaultVars, dateVars, signalVars>>

InitDuration ==
    /\ years \in -MaxDurYears..MaxDurYears
    /\ months \in -MaxDurMonths..MaxDurMonths
    /\ days \in -MaxDurDays..MaxDurDays
    /\ duration = PyNone
    /\ pc = "duration_of_numbers"
    /\ result = Pending
    /\ IdleDefault /\ IdleDate /\ IdleSignal

NextDuration == DurationOfNumbers \/ DurationToYearsMonthsDays

SpecDuration == InitDuration /\ [][NextDuration]_vars

----------------------------------------------------------------------------
(* Signals: NoValueProvided and its SourcePosition *)

\* SourcePosition.__init__: an instance holding the six fields
SourcePosition(filename, start_line, start_column, end_line, end_column, law_headings) ==
    [tag |-> "SourcePosition",
     v |-> [filename |-> filename, start_line |-> start_line,
            start_column |-> start_column, end_line |-> end_line,
            end_column |-> end_column, law_headings |-> law_headings]]

\* The class SourcePosition itself, as opposed to an instance of it
SourcePositionClass == [tag |-> "class", v |-> "SourcePosition"]

\* NoValueProvided.__init__(self, source_position)
NoValueProvided(p) == [tag |-> "NoValueProvided", source_position |-> SourcePositionClass]

SourcePositions ==
    {SourcePosition(f, sl, sc, el, ec, h) :
        f \in {"a.catala_fr", "b.catala_fr"},
        sl \in 1..MaxLine, sc \in 1..MaxLine, el \in 1..MaxLine, ec \in 1..MaxLine,
        h \in {<<>>, <<"Article 1">>, <<"Titre I", "Article 2">>}}

RaiseNoValueProvided ==
    /\ pc = "NoValueProvided"
    /\ signal' = NoValueProvided(source_position)
    /\ result' = Raised("NoValueProvided")
    /\ pc' = "done"
    /\ UNCHANGED <<source_position, defaultVars, dateVars, durationVars>>

InitSignal ==
    /\ source_position \in SourcePositions
    /\ signal = PyNone
    /\ pc = "NoValueProvided"
    /\ result = Pending
    /\ IdleDefault /\ IdleDate /\ IdleDuration

NextSignal == RaiseNoValueProvided

SpecSignal == InitSignal /\ [][NextSignal]_vars

----------------------------------------------------------------------------
(* Vocabulary of the claims about handle_default *)

N == Len(exceptions)
Done == pc = "done"

\* An entry that yields a definite value / fails with EmptyError / succeeds at all
Present(o) == o.raises = "" /\ o.value # PyNone
Absent(o) == o.raises = "EmptyError"
Succeeds(o) == o.raises = ""

PresentIdx == {i \in 1..N : Present(exceptions[i])}
SucceedIdx == {i \in 1..N : Succeeds(exceptions[i])}
AbsentIdx == {i \in 1..N : Absent(exceptions[i])}

Count(e) == Cardinality({k \in 1..Len(evaluated) : evaluated[k] = e})
JustEvaluated == Count(<<"just", 0>>) > 0
ConsEvaluated == Count(<<"cons", 0>>) > 0
\* The exception entries evaluated so far, in the order of their evaluation
ExceptionLog == SelectSeq(evaluated, LAMBDA e : e[1] = "exception")
Upto(k) == [i \in 1..k |-> <<"exception", i>>]
Min(S) == CHOOSE x \in S : \A y \in S : x <= y
SecondPresent == Min(PresentIdx \ {Min(PresentIdx)})

\* C1: when no exception entry is present (empty list, or every entry fails
\* with EmptyError), just is evaluated; if it returns true the call returns
\* exactly what cons produces; if it returns false the call fails with
\* EmptyError and cons is not evaluated.
C1_NoException ==
    (Done /\ AbsentIdx = 1..N) =>
        /\ JustEvaluated
        /\ (just = Returns(TRUE) /\ cons.raises = "") =>
               (ConsEvaluated /\ result = Returned(cons.value))
        /\ (just = Returns(FALSE)) =>
               (result = Raised("EmptyError") /\ ~ConsEvaluated)

C1_Witness ==
    /\ Done /\ N = 2 /\ AbsentIdx = 1..N
    /\ just = Returns(TRUE) /\ result = Returned(PyInt(42))

\* C2: when exactly one entry yields a value v and every other entry fails
\* with EmptyError, the call returns v, wherever that entry stands and
\* whatever just and cons would produce.
C2_SingleException ==
    \A i \in 1..N :
        (Done /\ PresentIdx = {i} /\ AbsentIdx = (1..N) \ {i}) =>
            result = Returned(exceptions[i].value)

C2_Witness ==
    /\ Done /\ N = 3 /\ PresentIdx = {2} /\ AbsentIdx = {1, 3}
    /\ just = Returns(TRUE) /\ cons = Returns(PyInt(42))
    /\ result = Returned(PyInt(0))

\* C3: when two or more entries yield a value and the rest fail with
\* EmptyError, the call fails with ConflictError and returns no value,
\* whatever the positions and values of the present entries and whatever
\* just returns.
C3_Conflict ==
    (Done /\ Cardinality(PresentIdx) >= 2 /\ PresentIdx \cup AbsentIdx = 1..N) =>
        result = Raised("ConflictError")

C3_Witness ==
    /\ Done /\ N = 3 /\ PresentIdx = {1, 3} /\ AbsentIdx = {2}
    /\ exceptions[1] = exceptions[3]
    /\ result = Raised("ConflictError")

\* C4 as stated: every entry that yields a value or fails with EmptyError is
\* evaluated exactly once, in list order, before the outcome is decided,
\* also when the call ends in ConflictError.
C4_AllEvaluated ==
    (Done /\ PresentIdx \cup AbsentIdx = 1..N) => ExceptionLog = Upto(N)

\* C4 amended: the entries are evaluated in list order, each at most once,
\* up to and including the second present entry when there is one (the call
\* then fails with ConflictError at once and the later entries are never
\* evaluated), and all of them otherwise.
C4_EvaluatedUntilConflict ==
    (Done /\ PresentIdx \cup AbsentIdx = 1..N) =>
        ExceptionLog = Upto(IF Cardinality(PresentIdx) >= 2 THEN SecondPresent ELSE N)

C4_Witness ==
    /\ Done /\ N = 3 /\ PresentIdx = {1, 2} /\ AbsentIdx = {3}
    /\ result = Raised("ConflictError")
    /\ ExceptionLog = Upto(2)

\* C5: just and cons are each evaluated at most once; neither is evaluated
\* when an exception entry is present; just is evaluated only after all
\* exception entries, and cons only after just has returned true.
C5_BaseRuleOnce ==
    /\ Count(<<"just", 0>>) <= 1
    /\ Count(<<"cons", 0>>) <= 1
    /\ PresentIdx # {} => (~JustEvaluated /\ ~ConsEvaluated)
    /\ JustEvaluated => (SubSeq(evaluated, 1, N) = Upto(N) /\ evaluated[N + 1] = <<"just", 0>>)
    /\ ConsEvaluated => (just = Returns(TRUE) /\ evaluated[N + 1] = <<"just", 0>>
                         /\ evaluated[N + 2] = <<"cons", 0>>)

C5_Witness ==
    /\ Done /\ N = 2 /\ ConsEvaluated
    /\ evaluated = <<<<"exception", 1>>, <<"exception", 2>>, <<"just", 0>>, <<"cons", 0>>>>

\* C6: an entry that fails with a condition other than EmptyError makes
\* handle_default fail with that same condition at once: nothing is
\* evaluated after it, and it is never taken for an absent exception.
C6_OtherErrorsPropagate ==
    \A k \in 1..Len(evaluated) :
        (evaluated[k][1] = "exception" /\ exceptions[evaluated[k][2]].raises \in OtherErrors) =>
            /\ k = Len(evaluated)
            /\ Done
            /\ result = Raised(exceptions[evaluated[k][2]].raises)

C6_Witness ==
    /\ Done /\ N = 3
    /\ Present(exceptions[1])
    /\ exceptions[2] = Raises("AssertionFailed")
    /\ Present(exceptions[3])
    /\ result = Raised("AssertionFailed")
    /\ Len(evaluated) = 2

\* C10: an entry that returns successfully counts as present whatever it
\* returns, None included: a single successful entry among entries failing
\* with EmptyError gives its value as the call's result without just or cons
\* being evaluated, and two or more successful entries give ConflictError.
C10_NonePresent ==
    (Done /\ SucceedIdx \cup AbsentIdx = 1..N) =>
        /\ \A i \in 1..N : SucceedIdx = {i} =>
               (result = Returned(exceptions[i].value) /\ ~JustEvaluated /\ ~ConsEvaluated)
        /\ Cardinality(SucceedIdx) >= 2 => result = Raised("ConflictError")

----------------------------------------------------------------------------
(* Vocabulary of the claims about dates, durations and signals *)

\* The proleptic Gregorian calendar, with no limit on the year
GregorianLeap(y) == y % 400 = 0 \/ (y % 4 = 0 /\ y % 100 # 0)
GregorianMonthLength(y, m) ==
    IF m \in {4, 6, 9, 11} THEN 30
    ELSE IF m = 2 THEN (IF GregorianLeap(y) THEN 29 ELSE 28)
    ELSE 31
GregorianValid(y, m, d) ==
    m \in 1..12 /\ d >= 1 /\ d <= GregorianMonthLength(y, m)

DateGivenBack ==
    result.kind = "return" /\ fields = <<year, month, day>>

\* C8 as stated: date_of_numbers(y, m, d) returns a Date whose accessors give
\* back y, m, d if (y, m, d) is a valid proleptic Gregorian date, and fails
\* with ImpossibleDate if and only if it is not.
C8_GregorianDates ==
    Done =>
        IF GregorianValid(year, month, day)
        THEN DateGivenBack
        ELSE result = Raised("ImpossibleDate")

\* C8 amended: date_of_numbers(y, m, d) returns a Date whose accessors give
\* back y, m, d if (y, m, d) is a valid proleptic Gregorian date with a year
\* in 1..9999, and fails with ImpossibleDate, and with nothing else, if and
\* only if it is not; (2023, 2, 29) fails and (2024, 2, 29) succeeds.
C8_GregorianDatesYear1To9999 ==
    Done =>
        /\ IF year \in 1..9999 /\ GregorianValid(year, month, day)
           THEN DateGivenBack
           ELSE result = Raised("ImpossibleDate")
        /\ (year = 2023 /\ month = 2 /\ day = 29) => result = Raised("ImpossibleDate")
        /\ (year = 2024 /\ month = 2 /\ day = 29) => DateGivenBack

C8_Witness ==
    /\ Done /\ year = 2024 /\ month = 2 /\ day = 29
    /\ fields = <<2024, 2, 29>>

\* C7 as stated: duration_to_years_months_days(duration_of_numbers(y, m, d))
\* is (y, m, d) for all integer triples: nothing is carried across units.
C7_DurationRoundTrip ==
    (Done /\ result.kind = "return") => result.value = <<years, months, days>>

\* C7 amended: duration_to_years_months_days(duration_of_numbers(y, m, d)) is
\* (y', m', d) with 12*y' + m' = 12*y + m, |m'| <= 11 and m' zero or of the
\* sign of m: whole years of months are carried into the years, the days are
\* kept, and the triple comes back as given exactly when |m| <= 11.
C7_DurationMonthsCarried ==
    (Done /\ result.kind = "return") =>
        LET y == result.value[1]
            m == result.value[2]
            d == result.value[3]
        IN /\ 12 * y + m = 12 * years + months
           /\ -11 <= m /\ m <= 11
           /\ m = 0 \/ (m > 0) = (months > 0)
           /\ d = days
           /\ (result.value = <<years, months, days>>) = (-11 <= months /\ months <= 11)

C7_Witness ==
    /\ Done /\ years = 1 /\ months = -13 /\ days = 3
    /\ result = Returned(<<0, -1, 3>>)

\* C9: the source_position field of NoValueProvided(p) is p itself.
C9_SignalCarriesPosition ==
    (Done /\ result = Raised("NoValueProvided")) => signal.source_position = source_position

====
